---- MODULE Spec2Model ----
(***************************************************************************)
(* Model of solve.py: the chosen-plaintext key-recovery attack on RC4 keyed *)
(* with nonce || counter || key (Klein's attack).                           *)
(*                                                                         *)
(* Byte strings are sequences over 0..255 (Python index k is TLA+ index    *)
(* k+1), the permutation S is a function on 0..255, hex strings are        *)
(* sequences of hex digits 0..15 (16 stands for any non-hex character).    *)
(* A Python call is modelled by its outcome: Ok(v) for a returned value,   *)
(* Raise(e) for a raised exception.                                        *)
(***************************************************************************)
EXTENDS Integers, Sequences, FiniteSets, TLC

VARIABLES
    \* ---- attack(): the driver ----
    pc,            \* position in attack()
    cache,         \* the --cache argument: TRUE when a path is given
    cache_file,    \* the file at that path: [exists, rows]
    secret,        \* the long-term key held by the oracle (server side)
    test_pt, test_nonce, test_counter, test_ct,   \* the test vector
    nonce,         \* the nonce shared by the samples (None before sampling)
    samples,       \* sequence of [counter, keystream]
    counter,       \* loop variable of the sampling loop
    key,           \* the key recovered so far
    last_verify,   \* outcome of the latest test_key call of the while loop
    rounds,        \* number of loop bodies entered
    err,           \* exception that ended attack(), "" when none
    result,        \* value returned by attack()
    \* ---- one KSA replay and extraction, step by step ----
    known_bytes, S, j, i, output_byte, next_S_i, pre_i, key_byte, phase,
    \* ---- most_common_element ----
    xs, chosen, sel_pc

drv_vars == <<pc, cache, cache_file, secret, test_pt, test_nonce, test_counter,
              test_ct, nonce, samples, counter, key, last_verify, rounds, err,
              result>>
ksa_vars == <<known_bytes, S, j, i, output_byte, next_S_i, pre_i, key_byte, phase>>
sel_vars == <<xs, chosen, sel_pc>>
vars == <<drv_vars, ksa_vars, sel_vars>>

----------------------------------------------------------------------------
(* Program constants and Python values *)

\* size of the RC4 state and modulus of all byte arithmetic
M == 256
Byte == 0 .. (M - 1)

\* exclusive upper limit of secrets.randbelow for the test counter
TestCounterLimit == 1000

Ok(v) == [ok |-> TRUE, val |-> v, exc |-> ""]
Raise(e) == [ok |-> FALSE, val |-> 0, exc |-> e]

\* Python's None where a byte string is expected
None == << -1 >>

\* result of the search for pre_i when no slot matches
NotFound == -1

\* seq[k] of Python: negative k counts from the end, out of range raises
Index(seq, k) ==
    LET kk == IF k < 0 THEN k + Len(seq) ELSE k
    IN  IF kk < 0 \/ kk >= Len(seq) THEN Raise("IndexError") ELSE Ok(seq[kk + 1])

RECURSIVE xor(_, _)
xor(a, b) ==
    IF a = 0 THEN b
    ELSE IF b = 0 THEN a
    ELSE (((a % 2) + (b % 2)) % 2) + 2 * xor(a \div 2, b \div 2)

Min(a, b) == IF a < b THEN a ELSE b

\* bytes([xor(pt, ct) for pt, ct in zip(plaintext, ciphertext)])
zip_xor(plaintext, ciphertext) ==
    [k \in 1 .. Min(Len(plaintext), Len(ciphertext)) |-> xor(plaintext[k], ciphertext[k])]

RECURSIVE Pow(_, _)
Pow(b, e) == IF e = 0 THEN 1 ELSE b * Pow(b, e - 1)

\* n.to_bytes(length=size, byteorder="little", signed=False)
to_bytes(n, size) ==
    IF n < 0 \/ n >= Pow(M, size) THEN Raise("OverflowError")
    ELSE Ok([k \in 1 .. size |-> (n \div Pow(M, k - 1)) % M])

----------------------------------------------------------------------------
(* RC4 key scheduling replay and candidate extraction *)

Identity == [x \in Byte |-> x]

\* S[a], S[b] = S[b], S[a]
Swap(perm, a, b) == [perm EXCEPT ![a] = perm[b], ![b] = perm[a]]

\* a KSA step whose "swap" only copies S[j] into S[i]
ksa_step_copy(perm, jj, ii, b) ==
    LET j2 == (jj + perm[ii] + b) % M
    IN  [S |-> [perm EXCEPT ![ii] = perm[j2]], j |-> j2]

\* one iteration of the KSA loop at index ii with key byte b
ksa_step(perm, jj, ii, b) ==
    LET j2 == (jj + perm[ii] + b) % M
    IN  [S |-> Swap(perm, ii, j2), j |-> j2]

\* the KSA loop from iteration ii on, over the first Len(kb) indices
RECURSIVE ksa_from(_, _, _, _)
ksa_from(kb, ii, perm, jj) ==
    IF ii >= Len(kb) THEN [S |-> perm, j |-> jj]
    ELSE LET st == ksa_step(perm, jj, ii, kb[ii + 1])
         IN  ksa_from(kb, ii + 1, st.S, st.j)

\* the replay of the first Len(kb) KSA iterations
ksa_replay(kb) == ksa_from(kb, 0, Identity, 0)

next_of(n, ob) == (n - ob) % M

\* the first x in range(256) with S[x] == v, NotFound when the loop ends
find_pre(perm, v, x0) ==
    IF \E x \in x0 .. (M - 1) : perm[x] = v
    THEN CHOOSE x \in x0 .. (M - 1) :
             perm[x] = v /\ \A y \in x0 .. (x - 1) : perm[y] # v
    ELSE NotFound

\* a candidate computed without the S[num_known_bytes] term
candidate_no_S(perm, jj, n, pre) == (pre - jj) % M

\* key_byte = (pre_i - j - S[num_known_bytes]) % 256
candidate(perm, jj, n, pre) == (pre - jj - perm[n]) % M

\* the body of "for counter, keystream in samples" for one sample
sample_candidate(nce, ctr, keystream, k) ==
    LET kb == nce \o ctr \o k
        n == Len(kb)
    IN  IF n > M THEN Raise("IndexError")
        ELSE LET st == ksa_replay(kb)
                 ob == Index(keystream, n - 1)
             IN  IF ~ob.ok THEN ob
                 ELSE LET pre == find_pre(st.S, next_of(n, ob.val), 0)
                      IN  IF pre = NotFound THEN Raise("TypeError")
                          ELSE IF n >= M THEN Raise("IndexError")
                          ELSE Ok(candidate(st.S, st.j, n, pre))

----------------------------------------------------------------------------
(* count_elements and most_common_element *)

Elems(seq) == {seq[k] : k \in 1 .. Len(seq)}

\* counts = {x: 0 for x in xs}; for x in xs: counts[x] += 1
RECURSIVE count_from(_, _, _)
count_from(seq, k, counts) ==
    IF k > Len(seq) THEN counts
    ELSE count_from(seq, k + 1, [counts EXCEPT ![seq[k]] = @ + 1])

count_elements(seq) == count_from(seq, 1, [x \in Elems(seq) |-> 0])

\* max(xs, key=f): the first item whose key no later item exceeds
RECURSIVE max_from(_, _, _, _)
max_from(seq, k, best, f) ==
    IF k > Len(seq) THEN best
    ELSE max_from(seq, k + 1, IF f[seq[k]] > f[best] THEN seq[k] ELSE best, f)

\* max(xs): the key function forgotten
most_common_element_nokey(seq) ==
    IF seq = <<>> THEN Raise("ValueError")
    ELSE Ok(max_from(seq, 2, seq[1], [x \in Elems(seq) |-> x]))

most_common_element(seq) ==
    IF seq = <<>> THEN Raise("ValueError")
    ELSE Ok(max_from(seq, 2, seq[1], count_elements(seq)))

----------------------------------------------------------------------------
(* Hex strings, the cache file, the cipher and the verifier *)

HexDigit == 0 .. 15
\* a character that is no hex digit
NonHex == 16

\* bs.hex()
hex(bs) ==
    [k \in 1 .. 2 * Len(bs) |->
        IF k % 2 = 1 THEN bs[(k + 1) \div 2] \div 16 ELSE bs[k \div 2] % 16]

\* bytes.fromhex(h)
fromhex(h) ==
    IF Len(h) % 2 = 1 \/ \E k \in 1 .. Len(h) : h[k] \notin HexDigit
    THEN Raise("ValueError")
    ELSE Ok([k \in 1 .. Len(h) \div 2 |-> 16 * h[2 * k - 1] + h[2 * k]])

\* the rows of the csv reader, from row k on
RECURSIVE read_rows(_, _, _, _)
read_rows(rows, k, nce, smp) ==
    IF k > Len(rows) THEN [nonce |-> nce, samples |-> smp]
    ELSE LET row == rows[k]
             n == IF Len(row) >= 1 THEN fromhex(row[1]) ELSE Raise("IndexError")
             c == IF Len(row) >= 2 THEN fromhex(row[2]) ELSE Raise("IndexError")
             ks == IF Len(row) >= 3 THEN fromhex(row[3]) ELSE Raise("IndexError")
         IN  IF ~n.ok THEN [nonce |-> nce, samples |-> smp]
             ELSE IF ~c.ok \/ ~ks.ok THEN [nonce |-> n.val, samples |-> smp]
             ELSE read_rows(rows, k + 1, n.val,
                            Append(smp, [counter |-> c.val, keystream |-> ks.val]))

read_cache(file) ==
    IF ~file.exists THEN [nonce |-> None, samples |-> <<>>]
    ELSE read_rows(file.rows, 1, None, <<>>)

write_cache(file, nce, smp) ==
    [exists |-> TRUE,
     rows |-> [k \in 1 .. Len(smp) |->
                 <<hex(nce), hex(smp[k].counter), hex(smp[k].keystream)>>]]

\* the complete RC4 key schedule, iterations lo .. hi-1, the key repeating
RECURSIVE rc4_ksa_range(_, _, _, _)
rc4_ksa_range(kb, lo, hi, st) ==
    IF hi - lo = 1 THEN ksa_step(st.S, st.j, lo, kb[(lo % Len(kb)) + 1])
    ELSE LET mid == (lo + hi) \div 2
             half == rc4_ksa_range(kb, lo, mid, st)
         IN  IF half.j \in Byte THEN rc4_ksa_range(kb, mid, hi, half) ELSE half

rc4_ksa(kb) == rc4_ksa_range(kb, 0, M, [S |-> Identity, j |-> 0]).S

\* n bytes of RC4 output from state (perm, ii, jj)
RECURSIVE rc4_prga(_, _, _, _)
rc4_prga(perm, ii, jj, n) ==
    IF n = 0 THEN <<>>
    ELSE LET i2 == (ii + 1) % M
             j2 == (jj + perm[i2]) % M
             p2 == Swap(perm, i2, j2)
         IN  <<p2[(p2[i2] + p2[j2]) % M]>> \o rc4_prga(p2, i2, j2, n - 1)

rc4_keystream(kb, n) == rc4_prga(rc4_ksa(kb), 0, 0, n)

rc4_encrypt(kb, plaintext) == zip_xor(plaintext, rc4_keystream(kb, Len(plaintext)))

\* key lengths in bytes accepted by algorithms.ARC4
ARC4KeySizes == {5, 7, 8, 10, 16, 20, 24, 32}

\* Cipher(algorithms.ARC4(key_bytes), mode=None).encryptor().update(plaintext)
ARC4_encrypt(kb, plaintext) ==
    IF Len(kb) \notin ARC4KeySizes THEN Raise("ValueError")
    ELSE Ok(rc4_encrypt(kb, plaintext))

\* the try block of test_key
test_key_body(nce, ctr, counter_size, k, plaintext, expected_ciphertext) ==
    LET cb == to_bytes(ctr, counter_size)
    IN  IF ~cb.ok THEN cb
        ELSE LET ct == ARC4_encrypt(nce \o cb.val \o k, plaintext)
             IN  IF ~ct.ok THEN ct ELSE Ok(ct.val = expected_ciphertext)

\* test_key without its except clause
test_key_noexcept(nce, ctr, counter_size, k, plaintext, expected_ciphertext) ==
    test_key_body(nce, ctr, counter_size, k, plaintext, expected_ciphertext)

test_key(nce, ctr, counter_size, k, plaintext, expected_ciphertext) ==
    LET r == test_key_body(nce, ctr, counter_size, k, plaintext, expected_ciphertext)
    IN  IF r.ok THEN r ELSE Ok(FALSE)

\* key.decode("ascii")
decode_ascii(bs) ==
    IF \E k \in 1 .. Len(bs) : bs[k] >= 128 THEN Raise("UnicodeDecodeError") ELSE Ok(bs)

\* the candidate of every sample, then the chosen byte: one pass of the loop body
round_choice(nce, smp, k) ==
    LET cands == [n \in 1 .. Len(smp) |->
                    sample_candidate(nce, smp[n].counter, smp[n].keystream, k)]
        bad == {n \in 1 .. Len(smp) : ~cands[n].ok}
    IN  IF bad # {} THEN cands[CHOOSE n \in bad : \A m \in bad : n <= m]
        ELSE most_common_element([n \in 1 .. Len(smp) |-> cands[n].val])

----------------------------------------------------------------------------
(* Bounds of the model and the values left alone by a specification *)

\* longest known-byte prefix replayed step by step
MaxPrefix == 3
\* bytes the replayed prefixes are made of
PrefixBytes == {0, 3, 255}
\* longest candidate sequence handed to most_common_element
MaxCands == 4
\* candidate values of those sequences
CandVals == {0, 7, 200, 255}

\* --nonce_size, --counter_size, --block_size, --samples, --key_size of the run
NonceSize == 3
CounterSize == 1
BlockSize == 6
NumSamples == 2
KeySize == 2

ConstBytes(n, b) == [k \in 1 .. n |-> b]

\* values secrets.token_bytes(nonce_size) is drawn from
Nonces == {ConstBytes(NonceSize, 0), [k \in 1 .. NonceSize |-> k]}
\* values secrets.token_bytes(block_size) is drawn from
Plaintexts == {ConstBytes(BlockSize, 0), [k \in 1 .. BlockSize |-> 16 * k + 1]}
\* values secrets.randbelow(1000) is drawn from
TestCounters == {0, TestCounterLimit - 1}
\* long-term keys the server may hold
Secrets == {<<69>>, <<133>>, <<65, 66, 67>>}

\* counter k of a cache file, as the sampling loop would have encoded it
CounterBytes(k, size) == [m \in 1 .. size |-> IF m = 1 THEN k % M ELSE 0]

CacheRows(counter_size, block_size, b) ==
    [k \in 1 .. NumSamples |->
        <<hex(ConstBytes(NonceSize, 0)), hex(CounterBytes(k - 1, counter_size)),
          hex(ConstBytes(block_size, b))>>]

\* contents of the file at the --cache path when the run starts
CacheFiles ==
    { [exists |-> FALSE, rows |-> <<>>],
      [exists |-> TRUE, rows |-> CacheRows(CounterSize, BlockSize, 5)],
      [exists |-> TRUE, rows |-> CacheRows(CounterSize, BlockSize - 1, 5)],
      [exists |-> TRUE, rows |-> CacheRows(CounterSize + 1, BlockSize, 5)],
      [exists |-> TRUE,
       rows |-> <<CacheRows(CounterSize, BlockSize, 9)[1],
                  <<hex(ConstBytes(NonceSize, 0)), <<0, NonHex>>, <<>>>> >>] }

SeqsUpTo(set, n) == UNION {[1 .. k -> set] : k \in 0 .. n}

DrvIdle ==
    /\ pc = "idle" /\ cache = FALSE /\ cache_file = [exists |-> FALSE, rows |-> <<>>]
    /\ secret = <<>> /\ test_pt = <<>> /\ test_nonce = <<>> /\ test_counter = 0
    /\ test_ct = <<>> /\ nonce = None /\ samples = <<>> /\ counter = 0
    /\ key = <<>> /\ last_verify = Raise("not called") /\ rounds = 0
    /\ err = "" /\ result = <<>>

KsaIdle ==
    /\ known_bytes = <<>> /\ S = Identity /\ j = 0 /\ i = 0 /\ output_byte = 0
    /\ next_S_i = 0 /\ pre_i = NotFound /\ key_byte = 0 /\ phase = "idle"

SelIdle == xs = <<>> /\ chosen = Raise("not called") /\ sel_pc = "idle"

----------------------------------------------------------------------------
(* SpecKSA: one replay of the KSA over a known-byte prefix, the extraction *)
(* of a candidate from an output byte, and the KSA step taken with it      *)

InitKSA ==
    /\ known_bytes \in SeqsUpTo(PrefixBytes, MaxPrefix)
    /\ S = Identity /\ j = 0 /\ i = 0
    /\ output_byte = 0 /\ next_S_i = 0 /\ pre_i = NotFound /\ key_byte = 0
    /\ phase = "ksa"
    /\ DrvIdle /\ SelIdle

\* for i in range(num_known_bytes): one iteration
KsaStep ==
    /\ phase = "ksa" /\ i < Len(known_bytes)
    /\ LET st == ksa_step(S, j, i, known_bytes[i + 1])
       IN  S' = st.S /\ j' = st.j
    /\ i' = i + 1
    /\ UNCHANGED <<known_bytes, output_byte, next_S_i, pre_i, key_byte, phase>>
    /\ UNCHANGED <<drv_vars, sel_vars>>

\* output_byte ... key_byte, for the output byte of any keystream
Extract ==
    /\ phase = "ksa" /\ i = Len(known_bytes)
    /\ \E ob \in Byte :
         LET pre == find_pre(S, next_of(i, ob), 0)
         IN  /\ pre # NotFound
             /\ output_byte' = ob
             /\ next_S_i' = next_of(i, ob)
             /\ pre_i' = pre
             /\ key_byte' = candidate(S, j, i, pre)
    /\ phase' = "extracted"
    /\ UNCHANGED <<known_bytes, S, j, i>>
    /\ UNCHANGED <<drv_vars, sel_vars>>

\* the KSA iteration at index num_known_bytes, once the candidate is the key byte
KsaStepCandidate ==
    /\ phase = "extracted"
    /\ LET st == ksa_step(S, j, i, key_byte)
       IN  S' = st.S /\ j' = st.j
    /\ i' = i + 1
    /\ phase' = "applied"
    /\ UNCHANGED <<known_bytes, output_byte, next_S_i, pre_i, key_byte>>
    /\ UNCHANGED <<drv_vars, sel_vars>>

NextKSA == KsaStep \/ Extract \/ KsaStepCandidate

SpecKSA == InitKSA /\ [][NextKSA]_vars

----------------------------------------------------------------------------
(* SpecSelect: most_common_element on a candidate sequence *)

InitSelect ==
    /\ xs \in SeqsUpTo(CandVals, MaxCands)
    /\ chosen = Raise("not called") /\ sel_pc = "call"
    /\ DrvIdle /\ KsaIdle

Select ==
    /\ sel_pc = "call"
    /\ chosen' = most_common_element(xs)
    /\ sel_pc' = "done"
    /\ UNCHANGED <<xs, drv_vars, ksa_vars>>

NextSelect == Select

SpecSelect == InitSelect /\ [][NextSelect]_vars

----------------------------------------------------------------------------
(* Spec: attack(), from the test vector to the returned key *)

\* the server: RC4 under nonce || counter || secret, the counter in
\* CounterSize little-endian bytes
oracle_encrypt(nce, ctr, plaintext) ==
    rc4_encrypt(nce \o to_bytes(ctr % Pow(M, CounterSize), CounterSize).val \o secret,
                plaintext)

\* response.text.strip() of the GET: the ciphertext in hex, a ciphertext one
\* byte short, or an error page
encrypt(nce, ctr, plaintext) ==
    LET ct == oracle_encrypt(nce, ctr, plaintext)
    IN  { hex(ct), hex(SubSeq(ct, 1, Len(ct) - 1)), <<NonHex>> }

Init ==
    /\ pc = "start"
    /\ cache \in BOOLEAN
    /\ cache_file \in (IF cache THEN CacheFiles ELSE {[exists |-> FALSE, rows |-> <<>>]})
    /\ secret \in Secrets
    /\ test_pt = <<>> /\ test_nonce = <<>> /\ test_counter = 0 /\ test_ct = <<>>
    /\ nonce = None /\ samples = <<>> /\ counter = 0 /\ key = <<>>
    /\ last_verify = Raise("not called") /\ rounds = 0 /\ err = "" /\ result = <<>>
    /\ KsaIdle /\ SelIdle

\* test_pt, test_nonce, test_counter, test_ct
SampleTestVector ==
    /\ pc = "start"
    /\ \E pt \in Plaintexts, n \in Nonces, c \in TestCounters :
         \E resp \in encrypt(n, c, pt) :
           LET ct == fromhex(resp)
           IN  /\ test_pt' = pt /\ test_nonce' = n /\ test_counter' = c
               /\ IF ct.ok
                  THEN test_ct' = ct.val /\ pc' = "load" /\ err' = err
                  ELSE test_ct' = test_ct /\ pc' = "crashed" /\ err' = ct.exc
    /\ UNCHANGED <<cache, cache_file, secret, nonce, samples, counter, key,
                   last_verify, rounds, result>>
    /\ UNCHANGED <<ksa_vars, sel_vars>>

\* nonce, samples = read_cache(cache); a fresh nonce when there are no samples
LoadCache ==
    /\ pc = "load"
    /\ LET r == IF cache THEN read_cache(cache_file)
                ELSE [nonce |-> None, samples |-> <<>>]
       IN  IF r.samples = <<>>
           THEN /\ nonce' \in Nonces
                /\ samples' = <<>>
                /\ pc' = IF NumSamples = 0 THEN "save" ELSE "sampling"
           ELSE /\ nonce' = r.nonce
                /\ samples' = r.samples
                /\ pc' = "save"
    /\ counter' = 0
    /\ UNCHANGED <<cache, cache_file, secret, test_pt, test_nonce, test_counter,
                   test_ct, key, last_verify, rounds, err, result>>
    /\ UNCHANGED <<ksa_vars, sel_vars>>

\* one iteration of "for counter in range(num_samples)"
TakeSample ==
    /\ pc = "sampling" /\ counter < NumSamples
    /\ \E plaintext \in Plaintexts :
         \E resp \in encrypt(nonce, counter, plaintext) :
           LET ciphertext == fromhex(resp)
               cb == to_bytes(counter, CounterSize)
           IN  IF ~ciphertext.ok
               THEN /\ pc' = "crashed" /\ err' = ciphertext.exc
                    /\ UNCHANGED <<samples, counter>>
               ELSE IF ~cb.ok
               THEN /\ pc' = "crashed" /\ err' = cb.exc
                    /\ UNCHANGED <<samples, counter>>
               ELSE /\ samples' = Append(samples,
                                    [counter |-> cb.val,
                                     keystream |-> zip_xor(plaintext, ciphertext.val)])
                    /\ counter' = counter + 1
                    /\ pc' = IF counter + 1 = NumSamples THEN "save" ELSE "sampling"
                    /\ err' = err
    /\ UNCHANGED <<cache, cache_file, secret, test_pt, test_nonce, test_counter,
                   test_ct, nonce, key, last_verify, rounds, result>>
    /\ UNCHANGED <<ksa_vars, sel_vars>>

\* write_cache(cache, nonce, samples) when a path is given; key = b""
SaveCache ==
    /\ pc = "save"
    /\ cache_file' = IF cache THEN write_cache(cache_file, nonce, samples) ELSE cache_file
    /\ key' = <<>>
    /\ pc' = "recovering"
    /\ UNCHANGED <<cache, secret, test_pt, test_nonce, test_counter, test_ct,
                   nonce, samples, counter, last_verify, rounds, err, result>>
    /\ UNCHANGED <<ksa_vars, sel_vars>>

\* the call of test_key in the while condition
Verify == test_key(test_nonce, test_counter, CounterSize, key, test_pt, test_ct)

\* while not test_key(...): one pass of the loop body
RecoverRound ==
    /\ pc = "recovering"
    /\ ~(Verify.ok /\ Verify.val)
    /\ last_verify' = Verify
    /\ IF ~Verify.ok
       THEN /\ pc' = "crashed" /\ err' = Verify.exc
            /\ UNCHANGED <<key, rounds>>
       ELSE LET ch == round_choice(nonce, samples, key)
            IN  /\ rounds' = rounds + 1
                /\ IF ch.ok
                   THEN key' = Append(key, ch.val) /\ UNCHANGED <<pc, err>>
                   ELSE pc' = "crashed" /\ err' = ch.exc /\ key' = key
    /\ UNCHANGED <<cache, cache_file, secret, test_pt, test_nonce, test_counter,
                   test_ct, nonce, samples, counter, result>>
    /\ UNCHANGED <<ksa_vars, sel_vars>>

\* test_key accepts: the final log line, then return key
Finish ==
    /\ pc = "recovering"
    /\ Verify.ok /\ Verify.val
    /\ last_verify' = Verify
    /\ LET text == decode_ascii(key)
       IN  IF text.ok
           THEN pc' = "returned" /\ result' = key /\ err' = err
           ELSE pc' = "crashed" /\ err' = text.exc /\ result' = result
    /\ UNCHANGED <<cache, cache_file, secret, test_pt, test_nonce, test_counter,
                   test_ct, nonce, samples, counter, key, rounds>>
    /\ UNCHANGED <<ksa_vars, sel_vars>>

Next == SampleTestVector \/ LoadCache \/ TakeSample \/ SaveCache \/ RecoverRound \/ Finish

Spec == Init /\ [][Next]_vars

----------------------------------------------------------------------------
(* Claims about most_common_element *)

Occurrences(seq, v) == Cardinality({k \in 1 .. Len(seq) : seq[k] = v})

\* C4: on a non-empty candidate sequence most_common_element returns a value
\* of the sequence whose number of occurrences no other value exceeds (so a
\* value with the strictly highest count is the one returned).
C4_SelectsMaximalCount ==
    (sel_pc = "done" /\ xs # <<>>) =>
        /\ chosen.ok
        /\ chosen.val \in Elems(xs)
        /\ \A v \in Elems(xs) : Occurrences(xs, v) <= Occurrences(xs, chosen.val)
        /\ \A v \in Elems(xs) :
             (\A w \in Elems(xs) \ {v} : Occurrences(xs, w) < Occurrences(xs, v))
                 => chosen.val = v

C4_Witness ==
    /\ sel_pc = "done" /\ Len(xs) = 3 /\ chosen.ok
    /\ chosen.val # xs[1] /\ chosen.val < xs[1]
    /\ Occurrences(xs, chosen.val) = 2

----------------------------------------------------------------------------
(* Claims about the KSA replay and the extraction *)

IsPermutation(perm) ==
    /\ DOMAIN perm = Byte
    /\ \A v \in Byte : Cardinality({x \in Byte : perm[x] = v}) = 1

\* C5: after every step of the KSA replay S is a bijection over 0..255 and j
\* is in 0..255; before the first step (and so for the empty prefix) S is
\* the identity and j = 0.
C5_ReplayKeepsPermutation ==
    (phase = "ksa") =>
        /\ IsPermutation(S)
        /\ j \in Byte
        /\ (i = 0 => (S = Identity /\ j = 0))
        /\ (i = Len(known_bytes) =>
              (ksa_replay(known_bytes).S = S /\ ksa_replay(known_bytes).j = j))

C5_Witness ==
    /\ phase = "ksa" /\ i = Len(known_bytes) /\ i = MaxPrefix
    /\ S # Identity /\ j # 0

\* C10: with k the extracted candidate, KSA step i = n with key byte k sets
\* j' = pre_i and leaves (n - o) mod 256 in slot n, and no other byte does.
C10_CandidateInvertsStep ==
    /\ (phase = "extracted" /\ i <= M - 1) =>
          /\ key_byte \in Byte
          /\ \A k \in Byte :
               LET st == ksa_step(S, j, i, k)
               IN  (st.j = pre_i /\ st.S[i] = next_of(i, output_byte)) <=> (k = key_byte)
    /\ (phase = "applied") =>
          (j = pre_i /\ S[i - 1] = next_of(i - 1, output_byte))

C10_Witness ==
    /\ phase = "applied" /\ Len(known_bytes) = MaxPrefix
    /\ pre_i # i - 1 /\ key_byte # 0 /\ output_byte # 0

----------------------------------------------------------------------------
(* Claims about the driver *)

Accepted == last_verify.ok /\ last_verify.val

WellFormedSamples ==
    /\ Len(nonce) = NonceSize
    /\ \A k \in 1 .. Len(samples) :
         /\ Len(samples[k].keystream) = BlockSize
         /\ Len(samples[k].counter) = CounterSize

\* C1: the driver never executes more than key_size recovery rounds: once
\* key_size bytes are recovered without verifying it stops (FAILED).
C1_AtMostKeySizeRounds ==
    WellFormedSamples => (rounds <= KeySize /\ Len(key) <= KeySize)

\* C2: the driver returns exactly when the verifier accepts the current key:
\* an accepted key (any byte values) is returned unchanged, and nothing is
\* returned that the verifier did not accept.
C2_ReturnsAcceptedKey ==
    /\ Accepted => (pc = "returned" /\ result = key)
    /\ (pc = "returned") => (Accepted /\ result = key)

\* C3: when building the key-schedule input or the cipher fails inside
\* test_key (counter not representable, unsupported key length), the call
\* returns False and the driver runs another round.
C3_VerifyFailureIsNotVerified ==
    [][(pc = "recovering"
          /\ ~test_key_body(test_nonce, test_counter, CounterSize, key,
                            test_pt, test_ct).ok)
        => (/\ last_verify'.ok /\ ~last_verify'.val
            /\ rounds' = rounds + 1
            /\ err' \notin {"OverflowError", "ValueError"})]_vars

C3_Witness ==
    /\ pc = "recovering" /\ rounds = 2 /\ Len(key) = 2
    /\ last_verify.ok /\ ~last_verify.val
    /\ ~to_bytes(test_counter, CounterSize).ok

\* C6: with samples of block_size keystream bytes, no round the driver
\* executes ends in an index or type failure of the candidate extraction.
C6_ExtractionTotal ==
    (pc = "crashed" /\ rounds > 0 /\ WellFormedSamples)
        => err \notin {"IndexError", "TypeError"}

\* C7: no sample whose keystream length differs from block_size or whose
\* counter length differs from counter_size enters the sample set.
C7_MalformedSampleRejected ==
    \A k \in 1 .. Len(samples) :
        /\ Len(samples[k].keystream) = BlockSize
        /\ Len(samples[k].counter) = CounterSize

\* C8: a round appends exactly one byte to the key and changes no earlier
\* byte; with r bytes recovered every sample's prefix nonce + counter + key
\* has length N + C + r; samples, nonce and test vector are left unchanged.
C8_AppendOnlyKey ==
    [][(pc = "recovering" /\ rounds' = rounds + 1)
        => (/\ (pc' = "recovering") =>
                  (/\ Len(key') = Len(key) + 1
                   /\ SubSeq(key', 1, Len(key)) = key)
            /\ \A k \in 1 .. Len(samples) :
                  Len(nonce \o samples[k].counter \o key)
                      = NonceSize + CounterSize + Len(key)
            /\ UNCHANGED <<samples, nonce, test_pt, test_nonce, test_counter,
                           test_ct>>)]_vars

\* C9: the byte chosen in a round is the same for every reordering of the
\* samples, ties for the highest count included.
C9_OrderIndependentChoice ==
    (pc = "recovering" /\ WellFormedSamples) =>
        \A p \in Permutations(1 .. Len(samples)) :
            round_choice(nonce, [k \in 1 .. Len(samples) |-> samples[p[k]]], key)
                = round_choice(nonce, samples, key)

====
